---- MODULE Spec2Model ----
(***************************************************************************)
(* Frame cache of the onion-skin add-on ("B onion skin/cache.py"): an      *)
(* OrderedDict of raw geometry per frame, a lazily built batch per frame,  *)
(* a dirty set, hit/miss counters and the last served frame.               *)
(***************************************************************************)
EXTENDS Integers, Sequences, FiniteSets, TLC

\* ------------------------------------------------------------------------
\* Bounds of the model
\* ------------------------------------------------------------------------
MaxFrame == 2
MaxCapacity == 2
MaxMisses == 3
MaxHits == 2
MaxRadius == 1

Frames == 0..MaxFrame
Radii == 0..MaxRadius

\* ------------------------------------------------------------------------
\* Values
\* ------------------------------------------------------------------------
\* Python's None, as a return value and as missing data
None == [kind |-> "None"]

\* Python's True / False as a return value
Bool(b) == [kind |-> "bool", val |-> b]


\* _last_frame = -999 at import and after clear_cache
NoFrame == -999

\* primitive kinds batch_for_shader accepts from this add-on
PrimTypes == {"TRIS", "LINES"}

\* Arguments of add_to_cache: verts, indices, prim_type; nd tells whether
\* verts/indices are numpy arrays (isinstance(verts, np.ndarray)).
GeomA == [kind |-> "geom", verts |-> << <<0,0,0>>, <<1,0,0>>, <<0,1,0>> >>,
          indices |-> << <<0,1,2>> >>, prim |-> "TRIS", nd |-> FALSE]
GeomB == [kind |-> "geom", verts |-> << <<0,0,1>>, <<1,0,1>>, <<0,1,1>> >>,
          indices |-> << <<0,1,2>> >>, prim |-> "TRIS", nd |-> FALSE]
GeomBad == [kind |-> "geom", verts |-> << <<0,0,0>>, <<1,0,0>> >>,
            indices |-> << <<0,1,2>> >>, prim |-> "TRIS", nd |-> FALSE]
GeomNoIdx == [kind |-> "geom", verts |-> << <<0,0,0>>, <<1,0,0>>, <<0,1,0>> >>,
              indices |-> << >>, prim |-> "TRIS", nd |-> FALSE]
GeomEmpty == [kind |-> "geom", verts |-> << >>, indices |-> << >>, prim |-> "TRIS", nd |-> FALSE]
NdGeomA == [kind |-> "geom", verts |-> << <<0,0,0>>, <<1,0,0>>, <<0,1,0>> >>,
            indices |-> << <<0,1,2>> >>, prim |-> "TRIS", nd |-> TRUE]
NdGeomEmpty == [kind |-> "geom", verts |-> << >>, indices |-> << >>, prim |-> "TRIS", nd |-> TRUE]

\* verts is None, indices is None
GeomNone == None

ListGeoms == {GeomA, GeomB, GeomBad, GeomNoIdx, GeomEmpty, GeomNone}
NdGeoms == {NdGeomA, NdGeomEmpty}

\* What the callers can pass: with numpy the extracted geometry arrives as
\* arrays (GeomA as NdGeomA), without numpy as lists; hand-made lists can be
\* passed in both builds.
GeomInputs(hn) == IF hn THEN (ListGeoms \ {GeomA}) \cup NdGeoms ELSE ListGeoms

VARIABLES
    HAS_NUMPY,      \* cache.py:8-12, fixed by the build
    max_cache_size, \* cache.py:22
    frame_cache,    \* cache.py:20, OrderedDict as a sequence, oldest first
    batch_cache,    \* cache.py:21, function frame -> batch
    dirty_frames,   \* cache.py:30
    cache_hits,     \* cache.py:26
    cache_misses,   \* cache.py:27
    last_frame,     \* cache.py:23
    frame_current,  \* scene.frame_current
    pending_frames, \* async_cache.py:9
    is_caching,     \* async_cache.py:10
    timers,         \* registrations of _background_cache_step with bpy.app.timers
    enabled,        \* scene.onion_skin_settings.enabled
    objects,        \* scene.onion_skin_objects: "none", "nomesh" or "mesh"
    settings,       \* frames_before, frames_after, frame_step and the frame range
    last,           \* the operation that ran last and its arguments
    ret             \* what that operation returned

cacheVars == <<frame_cache, batch_cache, dirty_frames, cache_hits, cache_misses,
               last_frame>>
schedVars == <<frame_current, pending_frames, is_caching, timers>>
sceneVars == <<enabled, objects, settings>>
\* what the operations of cache.py never touch
confVars == <<HAS_NUMPY, max_cache_size, schedVars, sceneVars>>
vars == <<HAS_NUMPY, max_cache_size, frame_cache, batch_cache, dirty_frames,
          cache_hits, cache_misses, last_frame, frame_current, pending_frames,
          is_caching, timers, enabled, objects, settings, last, ret>>

\* ------------------------------------------------------------------------
\* OrderedDict and dict helpers
\* ------------------------------------------------------------------------
\* list(_frame_cache.keys()), in order
Keys(fc) == [i \in 1..Len(fc) |-> fc[i].frame]

\* set(_frame_cache.keys())
KeySet(fc) == {fc[i].frame : i \in 1..Len(fc)}

\* _frame_cache.get(frame)
Lookup(fc, f) ==
    IF f \in KeySet(fc)
    THEN (CHOOSE e \in {fc[i] : i \in 1..Len(fc)} : e.frame = f).data
    ELSE None

\* del _frame_cache[frame]
DelKey(fc, f) == SelectSeq(fc, LAMBDA e : e.frame # f)

\* _frame_cache[frame] = data: a present key keeps its place, a new key goes last
SetKey(fc, f, g) ==
    IF f \in KeySet(fc)
    THEN [i \in 1..Len(fc) |-> IF fc[i].frame = f THEN [frame |-> f, data |-> g] ELSE fc[i]]
    ELSE Append(fc, [frame |-> f, data |-> g])

\* _frame_cache.move_to_end(frame)
MoveToEnd(fc, f) ==
    Append(DelKey(fc, f), [frame |-> f, data |-> Lookup(fc, f)])

\* if frame in _batch_cache: del _batch_cache[frame]
DelBatch(bc, f) == [x \in (DOMAIN bc) \ {f} |-> bc[x]]

\* _batch_cache[frame] = batch
SetBatch(bc, f, b) == [x \in (DOMAIN bc) \cup {f} |-> IF x = f THEN b ELSE bc[x]]

EmptyDict == [x \in {} |-> None]

Abs(n) == IF n < 0 THEN -n ELSE n

\* ------------------------------------------------------------------------
\* Pure parts of the operations
\* ------------------------------------------------------------------------
\* verts.size of an (n, 3) array
Size(arr) == 3 * Len(arr)

\* add_to_cache, the early returns: None data, then "Handle empty data"
Rejected(hn, g) ==
    IF g = None THEN TRUE
    ELSE IF hn
         THEN IF g.nd THEN Size(g.verts) = 0 ELSE Len(g.verts) = 0
         ELSE Len(g.verts) = 0 \/ Len(g.indices) = 0

\* is_frame_cached without the dirty test
is_frame_cached_ignoring_dirty(df, fc, f) == f \in KeySet(fc)

\* is_frame_cached
is_frame_cached(df, fc, f) ==
    IF f \in df THEN FALSE ELSE f \in KeySet(fc)

\* the eviction loop stopping one entry late
RECURSIVE LRUEvictLate(_, _, _)
LRUEvictLate(fc, bc, cap) ==
    IF Len(fc) > cap + 1
    THEN LET old_frame == fc[1].frame
         IN LRUEvictLate(DelKey(fc, old_frame), DelBatch(bc, old_frame), cap)
    ELSE [fc |-> fc, bc |-> bc]

\* add_to_cache, "LRU eviction": the while loop, on the pair of caches
RECURSIVE LRUEvict(_, _, _)
LRUEvict(fc, bc, cap) ==
    IF Len(fc) > cap
    THEN LET old_frame == fc[1].frame
         IN LRUEvict(DelKey(fc, old_frame), DelBatch(bc, old_frame), cap)
    ELSE [fc |-> fc, bc |-> bc]

\* storing without move_to_end
StoreInPlace(fc, f, g) == SetKey(fc, f, g)

\* add_to_cache, "Store data directly" and move_to_end
Store(fc, f, g) == MoveToEnd(SetKey(fc, f, g), f)

\* leaving the dirty flag in place
KeepDirty(df, f) == df

\* add_to_cache, "Clear dirty flag"
ClearDirty(df, f) == df \ {f}

\* leaving the old batch in place
KeepStaleBatch(bc, f) == bc

\* add_to_cache, "Clear batch cache for this frame"
DropStaleBatch(bc, f) == DelBatch(bc, f)

\* verts.tolist() / indices.tolist() / list(verts): the rows as a list
ToList(arr) == [i \in 1..Len(arr) |-> arr[i]]

\* vertices per primitive
PrimArity(prim) == IF prim = "LINES" THEN 2 ELSE 3

\* batch_for_shader raises on a primitive kind it does not know and on an
\* index tuple that does not fit the primitive or the vertex buffer
BuildFails(g) ==
    \/ g.prim \notin PrimTypes
    \/ \E i \in 1..Len(g.indices) :
          \/ Len(g.indices[i]) # PrimArity(g.prim)
          \/ \E k \in 1..Len(g.indices[i]) :
                g.indices[i][k] < 0 \/ g.indices[i][k] >= Len(g.verts)

\* batch_for_shader(shader, prim_type, {"pos": verts_list}, indices=indices_list)
batch_for_shader(g) ==
    [kind |-> "batch", pos |-> ToList(g.verts), indices |-> ToList(g.indices), prim |-> g.prim]

\* get_batch without the dirty test
GetBatchRetServeDirty(df, bc, fc, f) ==
    IF f \in DOMAIN bc THEN bc[f]
    ELSE IF Lookup(fc, f) = None THEN None
    ELSE IF BuildFails(Lookup(fc, f)) THEN None
    ELSE batch_for_shader(Lookup(fc, f))

\* get_batch: what it returns in a state
GetBatchRet(df, bc, fc, f) ==
    IF f \in df THEN None
    ELSE IF f \in DOMAIN bc THEN bc[f]
    ELSE IF Lookup(fc, f) = None THEN None
    ELSE IF BuildFails(Lookup(fc, f)) THEN None
    ELSE batch_for_shader(Lookup(fc, f))

\* get_batch reaches the try block: frame clean, no batch yet, data stored
BuildAttempted(df, bc, fc, f) ==
    f \notin df /\ f \notin DOMAIN bc /\ Lookup(fc, f) # None

\* get_batch not keeping the batch it built
GetBatchCacheNoMemo(df, bc, fc, f) == bc

\* get_batch keeping the failed result as if it were a batch
GetBatchCacheSentinel(df, bc, fc, f) ==
    IF BuildAttempted(df, bc, fc, f)
    THEN SetBatch(bc, f, GetBatchRet(df, bc, fc, f))
    ELSE bc

\* get_batch: the batch cache it leaves
GetBatchCache(df, bc, fc, f) ==
    IF GetBatchRet(df, bc, fc, f) # None /\ f \notin DOMAIN bc
    THEN SetBatch(bc, f, GetBatchRet(df, bc, fc, f))
    ELSE bc

\* counting a hit whatever get_batch returns
HitsAfterAlways(h, r) == h + 1

\* get_batch: _cache_hits += 1 on both returns of a batch
HitsAfter(h, r) == IF r # None THEN h + 1 ELSE h

\* mark_all_dirty leaving the batches in place
MarkAllKeepBatches(df, bc, fc) == [df |-> df \cup KeySet(fc), bc |-> bc]

\* mark_all_dirty on the pair (dirty set, batch cache)
MarkAll(df, bc, fc) == [df |-> df \cup KeySet(fc), bc |-> EmptyDict]

\* mark_frame_dirty dropping every batch
MarkDirtyDropAll(df, bc, f) == [df |-> df \cup {f}, bc |-> EmptyDict]

\* mark_frame_dirty on the pair (dirty set, batch cache)
MarkDirty(df, bc, f) == [df |-> df \cup {f}, bc |-> DelBatch(bc, f)]

\* the distance test of invalidate_frames_near with < in place of <=
RECURSIVE InvalidateLoopStrict(_, _, _, _, _)
InvalidateLoopStrict(keys, df, bc, center, radius) ==
    IF keys = << >> THEN [df |-> df, bc |-> bc]
    ELSE LET frame == Head(keys)
             m == IF Abs(frame - center) < radius
                  THEN MarkDirty(df, bc, frame)
                  ELSE [df |-> df, bc |-> bc]
         IN InvalidateLoopStrict(Tail(keys), m.df, m.bc, center, radius)

\* invalidate_frames_near: mark_frame_dirty over list(_frame_cache.keys())
RECURSIVE InvalidateLoop(_, _, _, _, _)
InvalidateLoop(keys, df, bc, center, radius) ==
    IF keys = << >> THEN [df |-> df, bc |-> bc]
    ELSE LET frame == Head(keys)
             m == IF Abs(frame - center) <= radius
                  THEN MarkDirty(df, bc, frame)
                  ELSE [df |-> df, bc |-> bc]
         IN InvalidateLoop(Tail(keys), m.df, m.bc, center, radius)

\* the distance test of evict_distant_frames with >= in place of >
ToRemoveInclusive(fc, current_frame, keep_radius) ==
    SelectSeq(Keys(fc), LAMBDA frame : Abs(frame - current_frame) >= keep_radius)

\* the distance test of evict_distant_frames without abs()
ToRemoveNoAbs(fc, current_frame, keep_radius) ==
    SelectSeq(Keys(fc), LAMBDA frame : current_frame - frame > keep_radius)

\* evict_distant_frames: to_remove
ToRemove(fc, current_frame, keep_radius) ==
    SelectSeq(Keys(fc), LAMBDA frame : Abs(frame - current_frame) > keep_radius)

\* the deleting loop leaving the batches of the removed frames behind
RECURSIVE RemoveLoopKeepBatch(_, _, _)
RemoveLoopKeepBatch(to_remove, fc, bc) ==
    IF to_remove = << >> THEN [fc |-> fc, bc |-> bc]
    ELSE RemoveLoopKeepBatch(Tail(to_remove), DelKey(fc, Head(to_remove)), bc)

\* evict_distant_frames: the deleting loop
RECURSIVE RemoveLoop(_, _, _)
RemoveLoop(to_remove, fc, bc) ==
    IF to_remove = << >> THEN [fc |-> fc, bc |-> bc]
    ELSE RemoveLoop(Tail(to_remove), DelKey(fc, Head(to_remove)),
                    DelBatch(bc, Head(to_remove)))

RECURSIVE GCD(_, _)
GCD(a, b) == IF b = 0 THEN a ELSE GCD(b, a % b)

\* a float result, held as the fraction in lowest terms that it rounds
Ratio(n, d) ==
    IF n = 0 THEN [num |-> 0, den |-> 1]
    ELSE [num |-> n \div GCD(n, d), den |-> d \div GCD(n, d)]

\* get_cache_stats
get_cache_stats ==
    LET total == cache_hits + cache_misses
    IN [size |-> Len(frame_cache),
        max_size |-> max_cache_size,
        hits |-> cache_hits,
        misses |-> cache_misses,
        hit_rate |-> IF total > 0 THEN Ratio(cache_hits * 100, total)
                    ELSE Ratio(0, 1),
        dirty |-> Cardinality(dirty_frames)]

\* ------------------------------------------------------------------------
\* Initial state: the module right after import
\* ------------------------------------------------------------------------
\* The record of an operation: its name, its frame argument, and what held of
\* that frame and of the cache when it was called.
Op(name, f) ==
    [op |-> name, frame |-> f,
     stored |-> f \in KeySet(frame_cache),
     dirty |-> f \in dirty_frames,
     built |-> f \in DOMAIN batch_cache,
     size |-> Len(frame_cache)]

\* _last_frame at import
Init_last_frame == NoFrame

\* the settings of a scene: frames_before, frames_after, frame_step and the
\* pair get_frame_range returns
SceneSettings(step) ==
    [frames_before |-> 1, frames_after |-> 1, frame_step |-> step,
     range_start |-> 0, range_end |-> MaxFrame]

\* async_cache.py at import in a scene without tracked objects
SchedulerIdle ==
    /\ frame_current = 0
    /\ pending_frames = << >>
    /\ is_caching = FALSE
    /\ timers = 0
    /\ enabled = TRUE
    /\ objects = "none"
    /\ settings = SceneSettings(1)

Init ==
    /\ HAS_NUMPY \in BOOLEAN
    /\ max_cache_size \in 1..MaxCapacity
    /\ frame_cache = << >>
    /\ batch_cache = EmptyDict
    /\ dirty_frames = {}
    /\ cache_hits = 0
    /\ cache_misses = 0
    /\ last_frame = Init_last_frame
    /\ SchedulerIdle
    /\ last = Op("import", NoFrame)
    /\ ret = None

\* ------------------------------------------------------------------------
\* Operations
\* ------------------------------------------------------------------------
\* clear_cache leaving _last_frame as it was
clear_cache_keeping_last_frame ==
    /\ frame_cache' = << >>
    /\ batch_cache' = EmptyDict
    /\ cache_hits' = 0
    /\ cache_misses' = 0
    /\ dirty_frames' = {}
    /\ last' = Op("clear_cache", last_frame)
    /\ ret' = None
    /\ UNCHANGED <<confVars, last_frame>>

\* the operation record keeps the value _last_frame had when it was called
clear_cache ==
    /\ frame_cache' = << >>
    /\ batch_cache' = EmptyDict
    /\ last_frame' = NoFrame
    /\ cache_hits' = 0
    /\ cache_misses' = 0
    /\ dirty_frames' = {}
    /\ last' = Op("clear_cache", last_frame)
    /\ ret' = None
    /\ UNCHANGED confVars

set_last_frame(frame) ==
    /\ last_frame' = frame
    /\ last' = Op("set_last_frame", frame)
    /\ ret' = None
    /\ UNCHANGED <<confVars, frame_cache, batch_cache, dirty_frames,
                   cache_hits, cache_misses>>

is_frame_cached_call(frame) ==
    /\ ret' = Bool(is_frame_cached(dirty_frames, frame_cache, frame))
    /\ last' = Op("is_frame_cached", frame)
    /\ UNCHANGED <<confVars, cacheVars>>

mark_frame_dirty(frame) ==
    /\ dirty_frames' = MarkDirty(dirty_frames, batch_cache, frame).df
    /\ batch_cache' = MarkDirty(dirty_frames, batch_cache, frame).bc
    /\ last' = Op("mark_frame_dirty", frame)
    /\ ret' = None
    /\ UNCHANGED <<confVars, frame_cache, cache_hits, cache_misses, last_frame>>

mark_all_dirty ==
    /\ dirty_frames' = MarkAll(dirty_frames, batch_cache, frame_cache).df
    /\ batch_cache' = MarkAll(dirty_frames, batch_cache, frame_cache).bc
    /\ last' = Op("mark_all_dirty", NoFrame)
    /\ ret' = None
    /\ UNCHANGED <<confVars, frame_cache, cache_hits, cache_misses, last_frame>>

add_to_cache(frame, g) ==
    /\ last' = Op("add_to_cache", frame)
    /\ ret' = None
    /\ IF Rejected(HAS_NUMPY, g)
       THEN UNCHANGED <<confVars, cacheVars>>
       ELSE /\ cache_misses < MaxMisses
            /\ cache_misses' = cache_misses + 1
            /\ LET stored == Store(frame_cache, frame, g)
                   rebuilt == DropStaleBatch(batch_cache, frame)
                   kept == LRUEvict(stored, rebuilt, max_cache_size)
               IN /\ frame_cache' = kept.fc
                  /\ batch_cache' = kept.bc
            /\ dirty_frames' = ClearDirty(dirty_frames, frame)
            /\ UNCHANGED <<confVars, cache_hits, last_frame>>

\* raises: batch_for_shader raises although the data is well formed (the
\* builder is outside this program); the except clause returns None
get_batch(frame) ==
    \E raises \in BOOLEAN :
       /\ raises => /\ BuildAttempted(dirty_frames, batch_cache, frame_cache, frame)
                     /\ ~BuildFails(Lookup(frame_cache, frame))
       /\ last' = Op("get_batch", frame)
       /\ ret' = IF raises THEN None
                  ELSE GetBatchRet(dirty_frames, batch_cache, frame_cache, frame)
       /\ batch_cache' = IF raises THEN batch_cache
                          ELSE GetBatchCache(dirty_frames, batch_cache, frame_cache, frame)
       /\ cache_hits' = HitsAfter(cache_hits, ret')
       /\ cache_hits' <= MaxHits
       /\ UNCHANGED <<confVars, frame_cache, dirty_frames, cache_misses, last_frame>>

invalidate_frames_near(center_frame, radius) ==
    /\ LET m == InvalidateLoop(Keys(frame_cache), dirty_frames, batch_cache,
                               center_frame, radius)
       IN /\ dirty_frames' = m.df
          /\ batch_cache' = m.bc
    /\ last' = Op("invalidate_frames_near", center_frame)
    /\ ret' = None
    /\ UNCHANGED <<confVars, frame_cache, cache_hits, cache_misses, last_frame>>

evict_distant_frames(current_frame, keep_radius) ==
    /\ LET m == RemoveLoop(ToRemove(frame_cache, current_frame, keep_radius),
                           frame_cache, batch_cache)
       IN /\ frame_cache' = m.fc
          /\ batch_cache' = m.bc
    /\ last' = Op("evict_distant_frames", current_frame)
    /\ ret' = None
    /\ UNCHANGED <<confVars, dirty_frames, cache_hits, cache_misses, last_frame>>

AddStep == \E f \in Frames : \E g \in GeomInputs(HAS_NUMPY) : add_to_cache(f, g)
GetBatchStep == \E f \in Frames : get_batch(f)
IsCachedStep == \E f \in Frames : is_frame_cached_call(f)
MarkDirtyStep == \E f \in Frames : mark_frame_dirty(f)
InvalidateStep == \E c \in Frames : \E r \in Radii : invalidate_frames_near(c, r)
EvictDistantStep == \E c \in Frames : \E r \in Radii : evict_distant_frames(c, r)

Next ==
    \/ AddStep
    \/ GetBatchStep
    \/ IsCachedStep
    \/ MarkDirtyStep
    \/ mark_all_dirty
    \/ InvalidateStep
    \/ EvictDistantStep
    \/ clear_cache

Spec == Init /\ [][Next]_vars

\* ------------------------------------------------------------------------
\* The cache as the draw pass drives it: well-formed geometry is stored,
\* batches are served, the last served frame is recorded, a scene change
\* dirties everything and a load or a change of the object list clears.
\* ------------------------------------------------------------------------
ValidGeoms(hn) == {g \in GeomInputs(hn) : ~Rejected(hn, g) /\ ~BuildFails(g)}

AddValidStep == \E f \in Frames : \E g \in ValidGeoms(HAS_NUMPY) : add_to_cache(f, g)
SetLastFrameStep == \E f \in Frames : set_last_frame(f)

NextServe ==
    \/ AddValidStep
    \/ GetBatchStep
    \/ SetLastFrameStep
    \/ mark_all_dirty
    \/ clear_cache

SpecServe == Init /\ [][NextServe]_vars

\* ------------------------------------------------------------------------
\* Eviction by distance on a cache of the default capacity holding four
\* frames, stored by four add_to_cache calls in any order.
\* ------------------------------------------------------------------------
\* _max_cache_size as the module sets it
DefaultMaxCacheSize == 500

\* keep_radius as evict_distant_frames defaults it
DefaultKeepRadius == 50

\* the frames of the four entries
ScenarioFrames == {40, 70, 100, 160}

\* the orders in which the four frames can have been stored
ScenarioOrders ==
    {o \in [1..4 -> ScenarioFrames] : \A i, j \in 1..4 : i # j => o[i] # o[j]}

InitEvict ==
    /\ HAS_NUMPY \in BOOLEAN
    /\ max_cache_size = DefaultMaxCacheSize
    /\ \E o \in ScenarioOrders : \E g \in ValidGeoms(HAS_NUMPY) :
          /\ frame_cache = [i \in 1..4 |-> [frame |-> o[i], data |-> g]]
          /\ last = [op |-> "add_to_cache", frame |-> o[4], stored |-> FALSE,
                      dirty |-> FALSE, built |-> FALSE, size |-> 3]
    /\ batch_cache = EmptyDict
    /\ dirty_frames = {}
    /\ cache_hits = 0
    /\ cache_misses = 4
    /\ last_frame = Init_last_frame
    /\ SchedulerIdle
    /\ ret = None

EvictDefaultStep ==
    \E c \in ScenarioFrames : evict_distant_frames(c, DefaultKeepRadius)
ScenarioGetBatchStep == \E f \in ScenarioFrames : get_batch(f)
ScenarioIsCachedStep == \E f \in ScenarioFrames : is_frame_cached_call(f)

NextEvict ==
    \/ EvictDefaultStep
    \/ ScenarioGetBatchStep
    \/ ScenarioIsCachedStep

SpecEvict == InitEvict /\ [][NextEvict]_vars

\* ------------------------------------------------------------------------
\* Background caching: the timer callback, the handlers that start it and
\* cache_frame, which moves the scene to the frame it extracts.
\* A scheduler state is [cur, pending, caching, timers], a cache state is
\* [fc, bc, df, misses]; the operators thread the pair through the calls.
\* ------------------------------------------------------------------------
MaxStep == 2
MaxTimers == 2

\* look_ahead = max(frames_before, frames_after) + 5
LookAheadMargin == 5

\* return frames[:10]
PrecacheLimit == 10

Max(a, b) == IF a >= b THEN a ELSE b

Take(seq, n) == IF Len(seq) <= n THEN seq ELSE SubSeq(seq, 1, n)

\* list.sort(key=...) is stable: f goes behind every element that is not
\* farther from current than f
RECURSIVE InsertByDistance(_, _, _)
InsertByDistance(sorted, f, current) ==
    IF sorted = << >> THEN <<f>>
    ELSE IF Abs(Head(sorted) - current) <= Abs(f - current)
         THEN <<Head(sorted)>> \o InsertByDistance(Tail(sorted), f, current)
         ELSE <<f>> \o sorted

RECURSIVE SortByDistance(_, _)
SortByDistance(frames, current) ==
    IF frames = << >> THEN << >>
    ELSE InsertByDistance(SortByDistance(SubSeq(frames, 1, Len(frames) - 1), current),
                          frames[Len(frames)], current)

\* get_precache_frames(context, direction) in a scene at frame current
get_precache_frames(current, df, fc, st, direction) ==
    LET step == st.frame_step
        look_ahead == Max(st.frames_before, st.frames_after) + LookAheadMargin
        offsets == [k \in 1..(look_ahead \div step) |-> k * step]
        ahead == [k \in 1..Len(offsets) |-> current + offsets[k]]
        behind == [k \in 1..Len(offsets) |-> current - offsets[k]]
        forward == IF direction >= 0
                   THEN SelectSeq(ahead, LAMBDA f :
                           f <= st.range_end /\ ~is_frame_cached(df, fc, f))
                   ELSE << >>
        backward == IF direction <= 0
                    THEN SelectSeq(behind, LAMBDA f :
                            f >= st.range_start /\ ~is_frame_cached(df, fc, f))
                    ELSE << >>
    IN Take(SortByDistance(forward \o backward, current), PrecacheLimit)

\* a start request that runs the timer on an empty list as well
start_background_caching_on_empty(s, c) ==
    IF s.caching THEN s
    ELSE IF ~enabled THEN s
    ELSE LET found == get_precache_frames(s.cur, c.df, c.fc, settings, 0)
         IN [s EXCEPT !.pending = found, !.caching = TRUE, !.timers = @ + 1]

\* a start request that does not look at _is_caching
start_background_caching_while_running(s, c) ==
    IF ~enabled THEN s
    ELSE LET found == get_precache_frames(s.cur, c.df, c.fc, settings, 0)
         IN IF found = << >> THEN [s EXCEPT !.pending = found]
            ELSE [s EXCEPT !.pending = found, !.caching = TRUE, !.timers = @ + 1]

\* start_background_caching(context)
start_background_caching(s, c) ==
    IF s.caching THEN s
    ELSE IF ~enabled THEN s
    ELSE LET found == get_precache_frames(s.cur, c.df, c.fc, settings, 0)
         IN IF found = << >> THEN [s EXCEPT !.pending = found]
            ELSE [s EXCEPT !.pending = found, !.caching = TRUE, !.timers = @ + 1]

\* the handler dropping the notification
on_depsgraph_update_ignored(c) == c

\* on_depsgraph_update when a tracked object has changed
on_depsgraph_update(c) ==
    IF ~enabled \/ objects = "none" THEN c
    ELSE LET m == MarkAll(c.df, c.bc, c.fc)
         IN [c EXCEPT !.df = m.df, !.bc = m.bc]

\* scene.frame_set(f): the scene moves to f and the host runs the handlers
\* register() appended: on_frame_change on frame_change_post, and
\* on_depsgraph_update on depsgraph_update_post. Whether the evaluation of
\* the new frame reports an update of a tracked object is the host's
\* answer, not the program's: changed holds both answers, and no property
\* of the program is decided by the answer being yes
FrameSet(sc, f, changed) ==
    LET moved == [sc.s EXCEPT !.cur = f]
        c1 == IF changed THEN on_depsgraph_update(sc.c) ELSE sc.c
        s1 == IF enabled THEN start_background_caching(moved, c1) ELSE moved
    IN [s |-> s1, c |-> c1]

\* add_to_cache on a cache state
AddEffect(c, f, g) ==
    IF Rejected(HAS_NUMPY, g) THEN c
    ELSE LET stored == Store(c.fc, f, g)
             rebuilt == DropStaleBatch(c.bc, f)
             kept == LRUEvict(stored, rebuilt, max_cache_size)
         IN [fc |-> kept.fc, bc |-> kept.bc, df |-> ClearDirty(c.df, f),
             misses |-> c.misses + 1]

\* what the extraction of the meshes can come to: an exception, no geometry,
\* or lists of vertices and indices
ExtractOutcomes == {[kind |-> "raise"], [kind |-> "empty"], GeomB}

\* cache_frame without the test for a frame that is already cached
cache_frame_always_extracting(sc, frame, x, changed) ==
    IF objects # "mesh"
    THEN [s |-> sc.s, c |-> sc.c, path |-> "nomesh"]
    ELSE LET m == FrameSet(sc, frame, changed)
         IN IF x.kind = "raise" THEN [s |-> m.s, c |-> m.c, path |-> "raised"]
            ELSE IF x.kind = "empty" THEN [s |-> m.s, c |-> m.c, path |-> "empty"]
            ELSE [s |-> m.s, c |-> AddEffect(m.c, frame, x), path |-> "cached"]

\* cache_frame flagging the frame it could not extract for a later retry
cache_frame_marking_failures(sc, frame, x, changed) ==
    IF is_frame_cached(sc.c.df, sc.c.fc, frame)
    THEN [s |-> sc.s, c |-> sc.c, path |-> "already"]
    ELSE IF objects # "mesh"
    THEN [s |-> sc.s, c |-> sc.c, path |-> "nomesh"]
    ELSE LET m == FrameSet(sc, frame, changed)
             marked == MarkDirty(m.c.df, m.c.bc, frame)
             failed == [m.c EXCEPT !.df = marked.df, !.bc = marked.bc]
         IN IF x.kind = "raise" THEN [s |-> m.s, c |-> failed, path |-> "raised"]
            ELSE IF x.kind = "empty" THEN [s |-> m.s, c |-> failed, path |-> "empty"]
            ELSE [s |-> m.s, c |-> AddEffect(m.c, frame, x), path |-> "cached"]

\* drawing.cache_frame(context, frame); x is the outcome of the extraction
cache_frame(sc, frame, x, changed) ==
    IF is_frame_cached(sc.c.df, sc.c.fc, frame)
    THEN [s |-> sc.s, c |-> sc.c, path |-> "already"]
    ELSE IF objects # "mesh"
    THEN [s |-> sc.s, c |-> sc.c, path |-> "nomesh"]
    ELSE LET m == FrameSet(sc, frame, changed)
         IN IF x.kind = "raise" THEN [s |-> m.s, c |-> m.c, path |-> "raised"]
            ELSE IF x.kind = "empty" THEN [s |-> m.s, c |-> m.c, path |-> "empty"]
            ELSE [s |-> m.s, c |-> AddEffect(m.c, frame, x), path |-> "cached"]

\* the callback leaving the scene where cache_frame put it
RestoreFrameNever(sc, original_frame, changed) == sc

\* "Restore frame if changed"
RestoreFrame(sc, original_frame, changed) ==
    IF sc.s.cur # original_frame THEN FrameSet(sc, original_frame, changed) ELSE sc

\* return 0.05
Interval == [kind |-> "interval"]

\* _background_cache_step(): the states it leaves, the frame it popped, the
\* way it took and what it returns to the timer
background_cache_step(context_ok, x, changed1, changed2) ==
    LET s0 == [cur |-> frame_current, pending |-> pending_frames,
               caching |-> is_caching, timers |-> timers]
        c0 == [fc |-> frame_cache, bc |-> batch_cache, df |-> dirty_frames,
               misses |-> cache_misses]
        Stop(s, c, frame, path, notified) ==
            [s |-> [s EXCEPT !.caching = FALSE, !.timers = @ - 1], c |-> c,
             frame |-> frame, path |-> path, result |-> None,
             changed |-> notified]
    IN IF ~context_ok \/ ~enabled \/ objects = "none"
       THEN Stop(s0, c0, NoFrame, "invalid", FALSE)
       ELSE LET refilled == IF s0.pending = << >>
                            THEN get_precache_frames(s0.cur, c0.df, c0.fc, settings, 0)
                            ELSE s0.pending
            IN IF refilled = << >>
               THEN Stop([s0 EXCEPT !.pending = refilled], c0, NoFrame,
                         "exhausted", FALSE)
               ELSE LET frame == Head(refilled)
                        s1 == [s0 EXCEPT !.pending = Tail(refilled)]
                        original_frame == s1.cur
                        a == cache_frame([s |-> s1, c |-> c0], frame, x, changed1)
                        b == RestoreFrame([s |-> a.s, c |-> a.c], original_frame, changed2)
                        notified ==
                            \/ changed1 /\ a.path \in {"raised", "empty", "cached"}
                            \/ changed2 /\ a.s.cur # original_frame
                    IN IF b.s.pending # << >>
                       THEN [s |-> b.s, c |-> b.c, frame |-> frame,
                             path |-> a.path, result |-> Interval,
                             changed |-> notified]
                       ELSE Stop(b.s, b.c, frame, a.path, notified)

\* the operation record of a tick: the frame it popped, the way it took,
\* whether _is_caching was set when the timer fired, and whether the host
\* reported an update of a tracked object in a frame_set of the tick
TickRecord(frame, path, running, changed) ==
    [op |-> "tick", frame |-> frame, path |-> path, running |-> running,
     changed |-> changed]

\* the operation record of an event of the scene
Event(name, f) == [op |-> name, frame |-> f]

SetSched(s) ==
    /\ frame_current' = s.cur
    /\ pending_frames' = s.pending
    /\ is_caching' = s.caching
    /\ timers' = s.timers

SetCache(c) ==
    /\ frame_cache' = c.fc
    /\ batch_cache' = c.bc
    /\ dirty_frames' = c.df
    /\ cache_misses' = c.misses

\* a registered timer fires
Tick ==
    /\ timers > 0
    /\ \E context_ok \in BOOLEAN : \E x \in ExtractOutcomes :
       \E changed1 \in BOOLEAN : \E changed2 \in BOOLEAN :
          \E t \in {background_cache_step(context_ok, x, changed1, changed2)} :
             /\ t.c.misses <= MaxMisses
             /\ t.s.timers <= MaxTimers
             /\ SetSched(t.s)
             /\ SetCache(t.c)
             /\ last' = TickRecord(t.frame, t.path, is_caching, t.changed)
             /\ ret' = t.result
    /\ UNCHANGED <<HAS_NUMPY, max_cache_size, sceneVars, cache_hits, last_frame>>

\* the user or the playback moves the scene to frame f
FrameChange(f, changed) ==
    LET s0 == [cur |-> frame_current, pending |-> pending_frames,
               caching |-> is_caching, timers |-> timers]
        c0 == [fc |-> frame_cache, bc |-> batch_cache, df |-> dirty_frames,
               misses |-> cache_misses]
    IN \E m \in {FrameSet([s |-> s0, c |-> c0], f, changed)} :
       /\ m.s.timers <= MaxTimers
       /\ SetSched(m.s)
       /\ SetCache(m.c)
       /\ last' = [op |-> "frame_change", frame |-> f, from |-> frame_current,
                   was_caching |-> is_caching]
       /\ ret' = None
       /\ UNCHANGED <<HAS_NUMPY, max_cache_size, sceneVars, cache_hits, last_frame>>

\* stop_background_caching()
stop_background_caching ==
    /\ is_caching' = FALSE
    /\ pending_frames' = << >>
    /\ last' = Event("stop_background_caching", NoFrame)
    /\ ret' = None
    /\ UNCHANGED <<HAS_NUMPY, max_cache_size, sceneVars, cacheVars, frame_current, timers>>

\* a tracked object is edited: the depsgraph handler runs on its own
geometry_changed ==
    LET c0 == [fc |-> frame_cache, bc |-> batch_cache, df |-> dirty_frames,
               misses |-> cache_misses]
    IN /\ SetCache(on_depsgraph_update(c0))
       /\ last' = Event("geometry_changed", NoFrame)
       /\ ret' = None
       /\ UNCHANGED <<HAS_NUMPY, max_cache_size, schedVars, sceneVars, cache_hits,
                      last_frame>>

\* the panel toggles settings.enabled
ToggleEnabled ==
    /\ enabled' = ~enabled
    /\ last' = Event("toggle_enabled", NoFrame)
    /\ ret' = None
    /\ UNCHANGED <<HAS_NUMPY, max_cache_size, schedVars, cacheVars, objects, settings>>

\* the operators that change scene.onion_skin_objects, each ending in
\* cache.clear_cache()
SetObjects(o) ==
    /\ objects' = o
    /\ frame_cache' = << >>
    /\ batch_cache' = EmptyDict
    /\ last_frame' = NoFrame
    /\ cache_hits' = 0
    /\ cache_misses' = 0
    /\ dirty_frames' = {}
    /\ last' = Event("set_objects", NoFrame)
    /\ ret' = None
    /\ UNCHANGED <<HAS_NUMPY, max_cache_size, schedVars, enabled, settings>>

\* range(start, end + 1, step)
Range(start, end, step) ==
    IF end < start THEN << >>
    ELSE [k \in 1..((end - start) \div step + 1) |-> start + (k - 1) * step]

\* what one cache_frame call can come to: the extraction of this frame
\* raises, gives nothing or gives geometry, and this frame_set reports a
\* change of the tracked objects or does not
CacheFrameOutcomes(sc, frame) ==
    {cache_frame(sc, frame, x, changed) : x \in ExtractOutcomes, changed \in BOOLEAN}

\* scene.frame_set(original_frame) at the end of an operator
FrameSetOutcomes(sc, f) == {FrameSet(sc, f, changed) : changed \in BOOLEAN}

\* ONION_OT_bake_cache.execute, the loop: the states it can leave; an
\* exception of cache_frame ends the operator
RECURSIVE BakeLoop(_, _)
BakeLoop(frames, sc) ==
    IF frames = << >> THEN {[s |-> sc.s, c |-> sc.c, raised |-> FALSE]}
    ELSE IF is_frame_cached(sc.c.df, sc.c.fc, Head(frames))
    THEN BakeLoop(Tail(frames), sc)
    ELSE UNION {IF a.path = "raised"
                THEN {[s |-> a.s, c |-> a.c, raised |-> TRUE]}
                ELSE BakeLoop(Tail(frames), [s |-> a.s, c |-> a.c])
                  : a \in CacheFrameOutcomes(sc, Head(frames))}

\* ONION_OT_bake_cache: poll, execute
bake_cache ==
    /\ objects # "none"
    /\ LET s0 == [cur |-> frame_current, pending |-> pending_frames,
                  caching |-> is_caching, timers |-> timers]
           c0 == [fc |-> frame_cache, bc |-> batch_cache, df |-> dirty_frames,
                  misses |-> cache_misses]
           original_frame == frame_current
       IN \E looped \in BakeLoop(Range(settings.range_start, settings.range_end,
                                       settings.frame_step),
                                 [s |-> s0, c |-> c0]) :
          \E done \in (IF looped.raised THEN {[s |-> looped.s, c |-> looped.c]}
                       ELSE FrameSetOutcomes([s |-> looped.s, c |-> looped.c],
                                             original_frame)) :
          /\ done.c.misses <= MaxMisses
          /\ done.s.timers <= MaxTimers
          /\ SetSched(done.s)
          /\ SetCache(done.c)
          /\ last' = [op |-> "bake_cache", frame |-> original_frame,
                      raised |-> looped.raised]
          /\ ret' = None
    /\ UNCHANGED <<HAS_NUMPY, max_cache_size, sceneVars, cache_hits, last_frame>>

\* ONION_OT_rebake_cache.execute, the loop: cache_frame for every frame
RECURSIVE RebakeLoop(_, _)
RebakeLoop(frames, sc) ==
    IF frames = << >> THEN {[s |-> sc.s, c |-> sc.c, raised |-> FALSE]}
    ELSE UNION {IF a.path = "raised"
                THEN {[s |-> a.s, c |-> a.c, raised |-> TRUE]}
                ELSE RebakeLoop(Tail(frames), [s |-> a.s, c |-> a.c])
                  : a \in CacheFrameOutcomes(sc, Head(frames))}

\* ONION_OT_rebake_cache: poll, execute; cache.clear_cache() comes first
rebake_cache ==
    /\ objects # "none"
    /\ LET s0 == [cur |-> frame_current, pending |-> pending_frames,
                  caching |-> is_caching, timers |-> timers]
           cleared == [fc |-> << >>, bc |-> EmptyDict, df |-> {}, misses |-> 0]
           original_frame == frame_current
       IN \E looped \in RebakeLoop(Range(settings.range_start, settings.range_end,
                                         settings.frame_step),
                                   [s |-> s0, c |-> cleared]) :
          \E done \in (IF looped.raised THEN {[s |-> looped.s, c |-> looped.c]}
                       ELSE FrameSetOutcomes([s |-> looped.s, c |-> looped.c],
                                             original_frame)) :
          /\ done.c.misses <= MaxMisses
          /\ done.s.timers <= MaxTimers
          /\ SetSched(done.s)
          /\ SetCache(done.c)
          /\ cache_hits' = 0
          /\ last_frame' = NoFrame
          /\ last' = [op |-> "rebake_cache", frame |-> original_frame,
                      raised |-> looped.raised]
          /\ ret' = None
    /\ UNCHANGED <<HAS_NUMPY, max_cache_size, sceneVars>>

FrameChangeStep == \E f \in Frames : \E changed \in BOOLEAN : FrameChange(f, changed)
SetObjectsStep == \E o \in {"none", "nomesh", "mesh"} : SetObjects(o)

\* Blender ships numpy: the build with HAS_NUMPY
InitSched ==
    /\ HAS_NUMPY = TRUE
    /\ max_cache_size = MaxCapacity
    /\ frame_cache = << >>
    /\ batch_cache = EmptyDict
    /\ dirty_frames = {}
    /\ cache_hits = 0
    /\ cache_misses = 0
    /\ last_frame = Init_last_frame
    /\ frame_current \in Frames
    /\ pending_frames = << >>
    /\ is_caching = FALSE
    /\ timers = 0
    /\ enabled = TRUE
    /\ objects = "none"
    /\ \E step \in 1..MaxStep : settings = SceneSettings(step)
    /\ last = Op("import", NoFrame)
    /\ ret = None

NextSched ==
    \/ Tick
    \/ FrameChangeStep
    \/ bake_cache
    \/ rebake_cache
    \/ geometry_changed
    \/ stop_background_caching
    \/ ToggleEnabled
    \/ SetObjectsStep

SpecSched == InitSched /\ [][NextSched]_vars

\* the import state with the largest cache of the bounds
InitTimer == InitSched /\ max_cache_size = MaxCapacity

\* ------------------------------------------------------------------------
\* The draw pass: draw_onion_skins with ensure_frames_cached, on a scene
\* with the default show_before, show_after and use_frame_range settings.
\* ------------------------------------------------------------------------

\* get_needed_frames(current, settings, scene): the frames before, then
\* the frames after
get_needed_frames(current, st) ==
    LET before == [k \in 1..(st.frames_before \div st.frame_step) |->
                      current - k * st.frame_step]
        after == [k \in 1..(st.frames_after \div st.frame_step) |->
                     current + k * st.frame_step]
    IN SelectSeq(before, LAMBDA f : f >= st.range_start)
          \o SelectSeq(after, LAMBDA f : f <= st.range_end)

\* one cache_frame call of the draw pass, with what was seen of it: failed
\* when the extraction ran and raised or gave nothing, notified when the
\* frame_set ran and reported a change
EnsureFrameOutcomes(sc, frame) ==
    UNION {{[s |-> a.s, c |-> a.c, path |-> a.path,
             failed |-> a.path \in {"raised", "empty"},
             notified |-> changed /\ a.path \in {"raised", "empty", "cached"}]
              : a \in {cache_frame(sc, frame, x, changed)}}
             : x \in ExtractOutcomes, changed \in BOOLEAN}

\* the loop of ensure_frames_cached: the states it can leave; an exception
\* of cache_frame ends it
RECURSIVE EnsureLoop(_, _, _, _)
EnsureLoop(frames, sc, failed, notified) ==
    IF frames = << >>
    THEN {[s |-> sc.s, c |-> sc.c, raised |-> FALSE, failed |-> failed,
           notified |-> notified]}
    ELSE UNION {IF a.path = "raised"
                THEN {[s |-> a.s, c |-> a.c, raised |-> TRUE, failed |-> TRUE,
                       notified |-> notified \/ a.notified]}
                ELSE EnsureLoop(Tail(frames), [s |-> a.s, c |-> a.c],
                                failed \/ a.failed, notified \/ a.notified)
                  : a \in EnsureFrameOutcomes(sc, Head(frames))}

\* "if scene.frame_current != original_frame: scene.frame_set(original_frame)"
EnsureRestore(looped, original_frame) ==
    IF looped.raised \/ looped.s.cur = original_frame THEN {looped}
    ELSE UNION {{[s |-> m.s, c |-> m.c, raised |-> FALSE,
                  failed |-> looped.failed,
                  notified |-> looped.notified \/ changed]
                   : m \in {FrameSet([s |-> looped.s, c |-> looped.c],
                                     original_frame, changed)}}
                  : changed \in BOOLEAN}

\* ensure_frames_cached(context); lf is cache._last_frame
ensure_frames_cached(sc, lf) ==
    IF sc.s.cur = lf
    THEN {[s |-> sc.s, c |-> sc.c, lf |-> lf, raised |-> FALSE, same |-> TRUE,
           failed |-> FALSE, notified |-> FALSE]}
    ELSE {[s |-> done.s, c |-> done.c, lf |-> sc.s.cur, raised |-> done.raised,
           same |-> FALSE, failed |-> done.failed, notified |-> done.notified]
            : done \in UNION {EnsureRestore(looped, sc.s.cur)
                                : looped \in EnsureLoop(
                                      get_needed_frames(sc.s.cur, settings),
                                      sc, FALSE, FALSE)}}

\* one cache.get_batch call of the drawing loop: the batch cache and the
\* hit counter it can leave; when it reaches the try block with well formed
\* data the builder either gives a batch or raises, and the except clause
\* then returns None with nothing memoised and nothing counted
GetBatchOutcomes(c, hits, f) ==
    {[c |-> [c EXCEPT !.bc = GetBatchCache(c.df, c.bc, c.fc, f)],
      hits |-> HitsAfter(hits, GetBatchRet(c.df, c.bc, c.fc, f))]}
    \cup (IF /\ BuildAttempted(c.df, c.bc, c.fc, f)
             /\ ~BuildFails(Lookup(c.fc, f))
          THEN {[c |-> c, hits |-> hits]}
          ELSE {})

\* the drawing loop: cache.get_batch for every frame to draw, a frame
\* without a batch is skipped; the states the loop can leave (the order of
\* the frames does not show in them)
RECURSIVE DrawLoop(_, _, _)
DrawLoop(frames, c, hits) ==
    IF frames = << >> THEN {[c |-> c, hits |-> hits]}
    ELSE UNION {DrawLoop(Tail(frames), g.c, g.hits)
                  : g \in GetBatchOutcomes(c, hits, Head(frames))}

\* draw_onion_skins() in a 3D viewport
draw_onion_skins ==
    LET s0 == [cur |-> frame_current, pending |-> pending_frames,
               caching |-> is_caching, timers |-> timers]
        c0 == [fc |-> frame_cache, bc |-> batch_cache, df |-> dirty_frames,
               misses |-> cache_misses]
    IN IF ~enabled \/ objects = "none"
       THEN /\ last' = [op |-> "draw", frame |-> frame_current, path |-> "skipped",
                        served |-> last_frame, changed |-> FALSE,
                        failed |-> FALSE]
            /\ ret' = None
            /\ UNCHANGED <<confVars, cacheVars>>
       ELSE \E en \in ensure_frames_cached([s |-> s0, c |-> c0], last_frame) :
            \E drawn \in (IF en.raised THEN {[c |-> en.c, hits |-> cache_hits]}
                          ELSE DrawLoop(get_needed_frames(en.s.cur, settings),
                                        en.c, cache_hits)) :
               /\ drawn.c.misses <= MaxMisses
               /\ drawn.hits <= MaxHits
               /\ en.s.timers <= MaxTimers
               /\ SetSched(en.s)
               /\ SetCache(drawn.c)
               /\ last_frame' = en.lf
               /\ cache_hits' = drawn.hits
               /\ last' = [op |-> "draw", frame |-> frame_current,
                           path |-> IF en.raised THEN "raised"
                                    ELSE IF en.same THEN "same" ELSE "ensured",
                           served |-> last_frame, changed |-> en.notified,
                           failed |-> en.failed]
               /\ ret' = None
               /\ UNCHANGED <<HAS_NUMPY, max_cache_size, sceneVars>>

DrawEvictStep == \E r \in Radii : evict_distant_frames(frame_current, r)

NextDraw ==
    \/ draw_onion_skins
    \/ FrameChangeStep
    \/ geometry_changed
    \/ DrawEvictStep
    \/ ToggleEnabled
    \/ SetObjectsStep

SpecDraw == InitTimer /\ [][NextDraw]_vars

\* ------------------------------------------------------------------------
\* The scheduler on a long timeline: the user jumps between the two ends
\* while the timer runs.
\* ------------------------------------------------------------------------

\* scene.frame_current after a jump
FarPositions == {0, 20}

\* every third frame of the range [0, 20]
FarSettings ==
    [frames_before |-> 1, frames_after |-> 1, frame_step |-> 3,
     range_start |-> 0, range_end |-> 20]

InitFar ==
    /\ HAS_NUMPY = TRUE
    /\ max_cache_size = MaxCapacity
    /\ frame_cache = << >>
    /\ batch_cache = EmptyDict
    /\ dirty_frames = {}
    /\ cache_hits = 0
    /\ cache_misses = 0
    /\ last_frame = Init_last_frame
    /\ frame_current \in FarPositions
    /\ pending_frames = << >>
    /\ is_caching = FALSE
    /\ timers = 0
    /\ enabled = TRUE
    /\ objects = "mesh"
    /\ settings = FarSettings
    /\ last = Op("import", NoFrame)
    /\ ret = None

FarFrameChangeStep ==
    \E f \in FarPositions : \E changed \in BOOLEAN : FrameChange(f, changed)

NextFar ==
    \/ Tick
    \/ FarFrameChangeStep
    \/ SetObjectsStep

SpecFar == InitFar /\ [][NextFar]_vars

\* the scheduler by itself: start requests, stops, session changes and the
\* timer, which is called again after the interval it returned
NextTimer ==
    \/ Tick
    \/ FrameChangeStep
    \/ stop_background_caching
    \/ ToggleEnabled
    \/ SetObjectsStep

SpecTimerFair == InitTimer /\ [][NextTimer]_vars /\ WF_vars(Tick)


\* ------------------------------------------------------------------------
\* The candidate computation on its own: get_precache_frames is called
\* with each direction, from positions inside and outside the frame range,
\* on caches that hold some of the neighbouring frames, clean or dirty.
\* ------------------------------------------------------------------------

\* scene.frame_current: inside the range, before it, after it
PrecachePositions == {80, 100, 115}

\* frames_before = frames_after = 10 on the range [90, 110]
PrecacheSettings ==
    {[frames_before |-> 10, frames_after |-> 10, frame_step |-> step,
      range_start |-> 90, range_end |-> 110] : step \in {1, 2}}

\* frames stored or marked dirty before the computation
PrecacheNear == {98, 102}

\* the direction argument: backwards, both, forwards
Directions == {-1, 0, 1}

InitPrecache ==
    /\ HAS_NUMPY = TRUE
    /\ max_cache_size = DefaultMaxCacheSize
    /\ frame_cache = << >>
    /\ batch_cache = EmptyDict
    /\ dirty_frames = {}
    /\ cache_hits = 0
    /\ cache_misses = 0
    /\ last_frame = Init_last_frame
    /\ frame_current \in PrecachePositions
    /\ pending_frames = << >>
    /\ is_caching = FALSE
    /\ timers = 0
    /\ enabled = TRUE
    /\ objects = "mesh"
    /\ settings \in PrecacheSettings
    /\ last = Op("import", NoFrame)
    /\ ret = None

\* get_precache_frames(context, direction) called by itself
get_precache_frames_call(direction) ==
    /\ ret' = [kind |-> "frames",
               frames |-> get_precache_frames(frame_current, dirty_frames,
                                              frame_cache, settings, direction)]
    /\ last' = [op |-> "get_precache_frames", frame |-> frame_current,
                direction |-> direction]
    /\ UNCHANGED <<confVars, cacheVars>>

PrecacheCallStep == \E direction \in Directions : get_precache_frames_call(direction)
PrecacheAddStep == \E f \in PrecacheNear : add_to_cache(f, GeomB)
PrecacheDirtyStep == \E f \in PrecacheNear : mark_frame_dirty(f)

NextPrecache ==
    \/ PrecacheCallStep
    \/ PrecacheAddStep
    \/ PrecacheDirtyStep

SpecPrecache == InitPrecache /\ [][NextPrecache]_vars

TypeOK ==
    /\ HAS_NUMPY \in BOOLEAN
    /\ max_cache_size \in 1..MaxCapacity
    /\ dirty_frames \subseteq Frames
    /\ cache_hits \in 0..MaxHits
    /\ cache_misses \in 0..MaxMisses

\* ------------------------------------------------------------------------
\* Vocabulary of the properties
\* ------------------------------------------------------------------------
\* the step was a call of add_to_cache that stored its data
AddStored == last'.op = "add_to_cache" /\ cache_misses' # cache_misses

\* geometry with at least one vertex and one index tuple
NonEmpty(g) == g # None /\ Len(g.verts) > 0 /\ Len(g.indices) > 0

\* geometry with no vertex or no index tuple
ZeroSized(g) == g # None /\ (Len(g.verts) = 0 \/ Len(g.indices) = 0)

\* the last n elements of a sequence
LastN(seq, n) ==
    IF Len(seq) <= n THEN seq ELSE SubSeq(seq, Len(seq) - n + 1, Len(seq))

\* a sequence without one value
Without(seq, x) == SelectSeq(seq, LAMBDA y : y # x)

\* ------------------------------------------------------------------------
\* C1: after every cache operation the number of stored entries is at most
\* the capacity; add_to_cache evicts before it returns.
\* ------------------------------------------------------------------------
C1_CapacityBound == Len(frame_cache) <= max_cache_size

\* add_to_cache stored a new frame into a full cache and the cache is full
C1_Witness ==
    /\ last.op = "add_to_cache"
    /\ ~last.stored
    /\ last.size = max_cache_size
    /\ last.frame \in KeySet(frame_cache)
    /\ Len(frame_cache) = max_cache_size

\* ------------------------------------------------------------------------
\* C2: get_batch(F) returns None when F is dirty or has no stored entry, in
\* every reachable state, also when a batch had been built for F earlier.
\* ------------------------------------------------------------------------
C2_NoBatchForDirtyOrAbsent ==
    /\ \A f \in Frames :
          (f \in dirty_frames \/ f \notin KeySet(frame_cache))
             => GetBatchRet(dirty_frames, batch_cache, frame_cache, f) = None
    /\ (last.op = "get_batch" /\ (last.dirty \/ ~last.stored)) => ret = None

\* F had a built batch, was marked dirty, and get_batch(F) gives None
C2_Witness ==
    /\ last.op = "mark_frame_dirty"
    /\ last.built
    /\ last.frame \in dirty_frames
    /\ GetBatchRet(dirty_frames, batch_cache, frame_cache, last.frame) = None

\* ------------------------------------------------------------------------
\* C3: is_frame_cached(F) is true exactly when F is stored and not dirty,
\* and the call changes nothing of the cache.
\* ------------------------------------------------------------------------
C3_IsCachedPure ==
    [][last'.op = "is_frame_cached" =>
         /\ ret' = Bool(last'.frame \in KeySet(frame_cache)
                        /\ last'.frame \notin dirty_frames)
         /\ UNCHANGED cacheVars]_vars

\* is_frame_cached answered False for a stored, dirty frame
C3_Witness ==
    /\ last.op = "is_frame_cached"
    /\ last.stored
    /\ last.dirty
    /\ ret = Bool(FALSE)

\* ------------------------------------------------------------------------
\* C4: a batch returned by get_batch(F) is the one derived from the geometry
\* stored for F now, never one built from geometry since dirtied or
\* overwritten.
\* ------------------------------------------------------------------------
C4_BatchFromCurrentGeometry ==
    /\ \A f \in Frames :
          GetBatchRet(dirty_frames, batch_cache, frame_cache, f) # None
             => /\ f \in KeySet(frame_cache)
                /\ GetBatchRet(dirty_frames, batch_cache, frame_cache, f)
                      = batch_for_shader(Lookup(frame_cache, f))
    /\ (last.op = "get_batch" /\ ret # None)
          => ret = batch_for_shader(Lookup(frame_cache, last.frame))

\* add_to_cache overwrote a frame whose batch was built; get_batch now
\* derives the batch from the new geometry
C4_Witness ==
    /\ last.op = "add_to_cache"
    /\ last.built
    /\ Lookup(frame_cache, last.frame) = GeomB
    /\ GetBatchRet(dirty_frames, batch_cache, frame_cache, last.frame)
          = batch_for_shader(GeomB)

\* ------------------------------------------------------------------------
\* C5: get_batch(F) is a touch: a frame just served by get_batch survives
\* the add of a new frame to a full cache (of capacity 2 or more), an older
\* untouched frame being evicted instead.
\* ------------------------------------------------------------------------
C5_GetBatchTouches ==
    [][(/\ last.op = "get_batch"
        /\ ret # None
        /\ AddStored
        /\ ~last'.stored
        /\ Len(frame_cache) = max_cache_size
        /\ max_cache_size >= 2)
          => last.frame \in KeySet(frame_cache')]_vars

\* ------------------------------------------------------------------------
\* C6: add_to_cache evicts in least-recently-added order: the stored frame
\* becomes the most recent, the entries kept are the most recently added
\* ones with their data, and capacity + 1 distinct frames added to an empty
\* cache evict exactly the first.
\* ------------------------------------------------------------------------
C6_AddOrder ==
    [][AddStored =>
         LET f == last'.frame
             moved == Append(Without(Keys(frame_cache), f), f)
         IN /\ Keys(frame_cache') = LastN(moved, max_cache_size)
            /\ Keys(frame_cache')[Len(frame_cache')] = f
            /\ \A x \in KeySet(frame_cache') \ {f} :
                  Lookup(frame_cache', x) = Lookup(frame_cache, x)
            /\ (/\ cache_misses = max_cache_size
                /\ Len(frame_cache) = max_cache_size
                /\ ~last'.stored)
                  => Keys(frame_cache') = Append(Tail(Keys(frame_cache)), f)]_vars

\* capacity + 1 distinct frames were added since the cache was empty
C6_Witness ==
    /\ last.op = "add_to_cache"
    /\ ~last.stored
    /\ last.size = max_cache_size
    /\ cache_misses = max_cache_size + 1
    /\ Len(frame_cache) = max_cache_size
    /\ Keys(frame_cache)[Len(frame_cache)] = last.frame

\* ------------------------------------------------------------------------
\* C7: add_to_cache with zero vertices or zero indices is a no-op.
\* ------------------------------------------------------------------------
C7_EmptyRejected ==
    [][last'.op = "add_to_cache" =>
         \A g \in GeomInputs(HAS_NUMPY) :
            (ZeroSized(g) /\ add_to_cache(last'.frame, g)) => UNCHANGED cacheVars]_vars

\* ------------------------------------------------------------------------
\* C8: add_to_cache(F, non-empty geometry) on a dirty F stores the geometry,
\* clears the dirty flag and drops the old batch in the one step; a frame
\* stops being dirty only that way or by losing its entry.
\* ------------------------------------------------------------------------
C8_DirtyClearAtomic ==
    [][\A f \in Frames :
          /\ \A g \in GeomInputs(HAS_NUMPY) :
                (/\ last'.op = "add_to_cache"
                 /\ last'.frame = f
                 /\ f \in dirty_frames
                 /\ NonEmpty(g)
                 /\ add_to_cache(f, g))
                   => /\ Lookup(frame_cache', f) = g
                      /\ f \notin dirty_frames'
                      /\ f \notin DOMAIN batch_cache'
                      /\ is_frame_cached(dirty_frames', frame_cache', f)
          /\ (f \in dirty_frames /\ f \notin dirty_frames'
                 /\ f \in KeySet(frame_cache'))
                => /\ last'.op = "add_to_cache"
                   /\ last'.frame = f
                   /\ f \notin DOMAIN batch_cache'
                   /\ \E g \in GeomInputs(HAS_NUMPY) :
                         add_to_cache(f, g) /\ Lookup(frame_cache', f) = g]_vars

\* add_to_cache ran on a stored, dirty frame, which is cached now
C8_Witness ==
    /\ last.op = "add_to_cache"
    /\ last.stored
    /\ last.dirty
    /\ Lookup(frame_cache, last.frame) = GeomB
    /\ is_frame_cached(dirty_frames, frame_cache, last.frame)

\* ------------------------------------------------------------------------
\* C9: mark_frame_dirty(F) on a cached F makes is_frame_cached(F) false and
\* get_batch(F) None, keeps the geometry of F, and changes nothing else.
\* ------------------------------------------------------------------------
C9_MarkDirtyEffect ==
    [][\A f \in Frames :
          (/\ last'.op = "mark_frame_dirty"
           /\ last'.frame = f
           /\ is_frame_cached(dirty_frames, frame_cache, f))
             => /\ ~is_frame_cached(dirty_frames', frame_cache', f)
                /\ GetBatchRet(dirty_frames', batch_cache', frame_cache', f) = None
                /\ frame_cache' = frame_cache
                /\ dirty_frames' = dirty_frames \cup {f}
                /\ DOMAIN batch_cache' = (DOMAIN batch_cache) \ {f}
                /\ \A x \in DOMAIN batch_cache' : batch_cache'[x] = batch_cache[x]
                /\ UNCHANGED <<cache_hits, cache_misses, last_frame>>]_vars

\* mark_frame_dirty ran on a cached frame with a built batch while another
\* frame keeps its batch
C9_Witness ==
    /\ last.op = "mark_frame_dirty"
    /\ last.stored
    /\ ~last.dirty
    /\ last.built
    /\ last.frame \in KeySet(frame_cache)
    /\ DOMAIN batch_cache # {}

\* ------------------------------------------------------------------------
\* C10: every dirty frame has a stored entry, so the reported dirty count
\* never exceeds the reported size.
\* ------------------------------------------------------------------------
C10_DirtySubsetOfEntries ==
    /\ dirty_frames \subseteq KeySet(frame_cache)
    /\ get_cache_stats.dirty <= get_cache_stats.size


\* ------------------------------------------------------------------------
\* C11: a built batch exists only for frames that are stored and not dirty:
\* every eviction and clear removes the batch with the geometry, and every
\* dirtying operation drops the batch of the frames it dirties.
\* ------------------------------------------------------------------------
C11_BatchOnlyForCleanEntries ==
    DOMAIN batch_cache \subseteq (KeySet(frame_cache) \ dirty_frames)

\* invalidate_frames_near dirtied a stored frame whose batch was built; that
\* batch is gone while the batch of another frame stays
C11_Witness ==
    /\ last.op = "invalidate_frames_near"
    /\ last.stored
    /\ last.built
    /\ last.frame \in dirty_frames
    /\ last.frame \notin DOMAIN batch_cache
    /\ DOMAIN batch_cache # {}


\* ------------------------------------------------------------------------
\* C12: get_batch(F) called twice on an unmodified clean entry returns the
\* same memoized batch, the second call finds it in the batch cache instead
\* of building, and each call adds exactly one hit.
\* ------------------------------------------------------------------------
C12_MemoizedBatch ==
    [][/\ (last'.op = "get_batch" /\ ret' # None)
            => cache_hits' = cache_hits + 1
       /\ (/\ last.op = "get_batch"
           /\ ret # None
           /\ last'.op = "get_batch"
           /\ last'.frame = last.frame)
             => /\ last.frame \in DOMAIN batch_cache
                /\ batch_cache[last.frame] = ret
                /\ ret' = ret
                /\ batch_cache' = batch_cache
                /\ cache_hits' = cache_hits + 1]_vars

\* one add, then two get_batch calls of that frame: the second was served
\* from the batch cache
C12_Witness ==
    /\ last.op = "get_batch"
    /\ last.built
    /\ ret # None
    /\ cache_misses = 1
    /\ cache_hits = 2

\* ------------------------------------------------------------------------
\* C13: a failed build makes get_batch(F) return None, stores nothing for
\* F, leaves geometry, dirty flag and counters alone, and the next
\* get_batch(F) goes to the builder again, whose result alone decides it.
\* ------------------------------------------------------------------------
\* the state right after get_batch(f) failed to build
BuildJustFailed(l, r) ==
    l.op = "get_batch" /\ l.stored /\ ~l.dirty /\ ~l.built /\ r = None

C13_BuildFailureRetried ==
    [][LET f == last'.frame
       IN /\ BuildJustFailed(last', ret')
               => /\ batch_cache' = batch_cache
                  /\ f \notin DOMAIN batch_cache'
                  /\ frame_cache' = frame_cache
                  /\ dirty_frames' = dirty_frames
                  /\ UNCHANGED <<cache_hits, cache_misses>>
                  /\ GetBatchRet(dirty_frames', batch_cache', frame_cache', f)
                        = IF BuildFails(Lookup(frame_cache', f)) THEN None
                          ELSE batch_for_shader(Lookup(frame_cache', f))
          /\ (BuildJustFailed(last, ret) /\ last'.op = "get_batch"
                 /\ f = last.frame)
               => /\ last'.stored /\ ~last'.dirty /\ ~last'.built
                  /\ \/ ret' = None
                     \/ /\ ret' = batch_for_shader(Lookup(frame_cache, f))
                        /\ f \in DOMAIN batch_cache'
                        /\ batch_cache'[f] = ret'
                        /\ cache_hits' = cache_hits + 1]_vars

\* the build of well-formed geometry failed: nothing is stored for the frame
\* and the next get_batch returns the batch if the builder succeeds
C13_Witness ==
    /\ BuildJustFailed(last, ret)
    /\ ~BuildFails(Lookup(frame_cache, last.frame))
    /\ last.frame \notin DOMAIN batch_cache
    /\ cache_hits < MaxHits
    /\ GetBatchRet(dirty_frames, batch_cache, frame_cache, last.frame)
          = batch_for_shader(Lookup(frame_cache, last.frame))

\* ------------------------------------------------------------------------
\* C14: misses counts the add_to_cache calls that stored their data, hits
\* the get_batch calls that returned a batch, both since the last
\* clear_cache, which alone lowers them.
\* ------------------------------------------------------------------------
C14_CountersFollowOps ==
    [][LET f == last'.frame
       IN /\ last'.op = "add_to_cache"
               => /\ cache_hits' = cache_hits
                  /\ \A g \in GeomInputs(HAS_NUMPY) :
                        add_to_cache(f, g)
                           => cache_misses' =
                                 IF g # None /\ Lookup(frame_cache', f) = g
                                 THEN cache_misses + 1 ELSE cache_misses
          /\ last'.op = "get_batch"
               => /\ cache_misses' = cache_misses
                  /\ cache_hits' = IF ret' # None THEN cache_hits + 1
                                    ELSE cache_hits
          /\ last'.op = "clear_cache"
               => cache_hits' = 0 /\ cache_misses' = 0
          /\ last'.op \notin {"add_to_cache", "get_batch", "clear_cache"}
               => UNCHANGED <<cache_hits, cache_misses>>]_vars

\* cold start: one frame added to the empty cache and served once
C14_Witness ==
    /\ last.op = "get_batch"
    /\ ~last.built
    /\ ret # None
    /\ Len(frame_cache) = 1
    /\ is_frame_cached(dirty_frames, frame_cache, last.frame)
    /\ get_cache_stats.misses = 1
    /\ get_cache_stats.hits = 1


\* ------------------------------------------------------------------------
\* C15: whatever came before, right after clear_cache the size, the hit,
\* miss and dirty counts are 0, no batch is left and _last_frame has its
\* initial value.
\* ------------------------------------------------------------------------
C15_ClearResetsAll ==
    last.op = "clear_cache"
       => /\ get_cache_stats.size = 0
          /\ get_cache_stats.hits = 0
          /\ get_cache_stats.misses = 0
          /\ get_cache_stats.dirty = 0
          /\ get_cache_stats.hit_rate = Ratio(0, 1)
          /\ batch_cache = EmptyDict
          /\ last_frame = NoFrame
          /\ last_frame = Init_last_frame

\* clear_cache called on a full cache whose last served frame had a batch
C15_Witness ==
    /\ last.op = "clear_cache"
    /\ last.frame # NoFrame
    /\ last.built
    /\ last.size = 2
    /\ frame_cache = << >>

\* ------------------------------------------------------------------------
\* C16: mark_all_dirty puts every stored frame in the dirty set and drops
\* every batch, so no frame is cached or has a batch afterwards; geometry,
\* size, recency order and the counters are unchanged.
\* ------------------------------------------------------------------------
C16_MarkAllDirtyEffect ==
    [][last'.op = "mark_all_dirty"
         => /\ dirty_frames' = dirty_frames \cup KeySet(frame_cache)
            /\ batch_cache' = EmptyDict
            /\ \A f \in Frames :
                  /\ ~is_frame_cached(dirty_frames', frame_cache', f)
                  /\ GetBatchRet(dirty_frames', batch_cache', frame_cache', f) = None
            /\ frame_cache' = frame_cache
            /\ UNCHANGED <<cache_hits, cache_misses>>]_vars

\* mark_all_dirty on a full cache that had served a batch
C16_Witness ==
    /\ last.op = "mark_all_dirty"
    /\ Len(frame_cache) = 2
    /\ KeySet(frame_cache) \subseteq dirty_frames
    /\ cache_hits >= 1
    /\ batch_cache = EmptyDict

\* ------------------------------------------------------------------------
\* C17: evict_distant_frames(center, keep_radius) removes exactly the
\* entries farther than keep_radius from center, with their batches; the
\* entries within keep_radius keep geometry, batch, dirty flag and relative
\* order; the counters are unchanged.
\* ------------------------------------------------------------------------
C17_EvictDistantEffect ==
    [][last'.op = "evict_distant_frames"
         => \A r \in Radii :
              evict_distant_frames(last'.frame, r)
                 => LET c == last'.frame
                        kept == SelectSeq(Keys(frame_cache),
                                          LAMBDA f : Abs(f - c) <= r)
                    IN /\ Keys(frame_cache') = kept
                       /\ \A f \in KeySet(frame_cache') :
                             /\ Lookup(frame_cache', f) = Lookup(frame_cache, f)
                             /\ (f \in dirty_frames') = (f \in dirty_frames)
                             /\ (f \in DOMAIN batch_cache') = (f \in DOMAIN batch_cache)
                             /\ f \in DOMAIN batch_cache
                                   => batch_cache'[f] = batch_cache[f]
                       /\ \A f \in KeySet(frame_cache) \ KeySet(frame_cache') :
                             f \notin DOMAIN batch_cache'
                       /\ UNCHANGED <<cache_hits, cache_misses>>]_vars

\* one of two entries removed, the kept one still has its batch
C17_Witness ==
    /\ last.op = "evict_distant_frames"
    /\ last.size = 2
    /\ Len(frame_cache) = 1
    /\ DOMAIN batch_cache = KeySet(frame_cache)

\* ------------------------------------------------------------------------
\* C19: invalidate_frames_near(center, radius) dirties exactly the stored
\* frames within radius of center and drops their batches; stored frames
\* farther away keep dirty flag and batch, no geometry is removed, and no
\* frame without an entry becomes dirty.
\* ------------------------------------------------------------------------
C19_InvalidateNearEffect ==
    [][last'.op = "invalidate_frames_near"
         => \A r \in Radii :
              invalidate_frames_near(last'.frame, r)
                 => LET c == last'.frame
                        near == {f \in KeySet(frame_cache) : Abs(f - c) <= r}
                    IN /\ dirty_frames' = dirty_frames \cup near
                       /\ DOMAIN batch_cache' = DOMAIN batch_cache \ near
                       /\ \A f \in DOMAIN batch_cache' :
                             batch_cache'[f] = batch_cache[f]
                       /\ frame_cache' = frame_cache
                       /\ UNCHANGED <<cache_hits, cache_misses>>]_vars

\* the centre frame lost its batch and is dirty, a farther stored frame is
\* clean with its batch, and a frame without an entry is not dirty
C19_Witness ==
    /\ last.op = "invalidate_frames_near"
    /\ last.built
    /\ last.frame \in dirty_frames
    /\ \E f \in KeySet(frame_cache) :
          f \notin dirty_frames /\ f \in DOMAIN batch_cache
    /\ \E f \in Frames : f \notin KeySet(frame_cache) /\ f \notin dirty_frames


\* ------------------------------------------------------------------------
\* C18: with entries at frames 40, 70, 100 and 160,
\* evict_distant_frames(100, 50) removes the frames 40 and 160, both at
\* distance 60, with their batches, and the entries 70 and 100 remain in
\* their order.
\* ------------------------------------------------------------------------
C18_EvictScenario ==
    [][(/\ last'.op = "evict_distant_frames"
        /\ KeySet(frame_cache) = ScenarioFrames
        /\ evict_distant_frames(100, DefaultKeepRadius))
          => /\ KeySet(frame_cache') = {70, 100}
             /\ Keys(frame_cache')
                  = SelectSeq(Keys(frame_cache), LAMBDA f : f \in {70, 100})
             /\ \A f \in {70, 100} :
                   Lookup(frame_cache', f) = Lookup(frame_cache, f)
             /\ DOMAIN batch_cache' = DOMAIN batch_cache \ {40, 160}]_vars

\* the statement as the specification words it: frame 40 alone is evicted
C18_OnlyFrame40Evicted ==
    [][(/\ last'.op = "evict_distant_frames"
        /\ KeySet(frame_cache) = ScenarioFrames
        /\ evict_distant_frames(100, DefaultKeepRadius))
          => KeySet(frame_cache') = {70, 100, 160}]_vars

\* the eviction around frame 100 ran on the four entries, two with a batch
C18_Witness ==
    /\ last.op = "evict_distant_frames"
    /\ last.frame = 100
    /\ last.size = 4
    /\ last.built
    /\ KeySet(frame_cache) = {70, 100}
    /\ DOMAIN batch_cache = {100}
    /\ cache_hits = 2


\* ------------------------------------------------------------------------
\* C20: after every tick of the timer callback scene.frame_current is what
\* it was before the tick, whichever way the tick took: the frame was
\* cached, was already cached, the extraction gave nothing, or it raised.
\* ------------------------------------------------------------------------
C20_TickRestoresFrame ==
    [][last'.op = "tick" => frame_current' = frame_current]_vars

\* a tick moved the scene to another frame, the extraction there raised,
\* and the scene is back
C20_Witness ==
    /\ last.op = "tick"
    /\ last.path = "raised"
    /\ last.frame # frame_current
    /\ last.frame # NoFrame


\* ------------------------------------------------------------------------
\* C21: the timer tick that follows stop_background_caching does no work:
\* it extracts nothing and adds nothing, whatever the session is.
\* ------------------------------------------------------------------------
C21_StopHonoredByNextTick ==
    [][(last.op = "stop_background_caching" /\ last'.op = "tick")
          => (/\ last'.path \notin {"raised", "empty", "cached"}
              /\ frame_cache' = frame_cache
              /\ cache_misses' = cache_misses)]_vars


\* ------------------------------------------------------------------------
\* C22: a tick that finds the session invalid goes Idle, extracts and adds
\* nothing, leaves the scene frame alone, and leaves the pending queue
\* empty.
\* ------------------------------------------------------------------------
C22_InvalidTickDiscardsCandidates ==
    [][(last'.op = "tick" /\ last'.path = "invalid")
          => (/\ ~is_caching'
              /\ frame_cache' = frame_cache
              /\ cache_misses' = cache_misses
              /\ frame_current' = frame_current
              /\ pending_frames' = << >>)]_vars


\* ------------------------------------------------------------------------
\* C23: when a tick of the running scheduler with a valid session ends
\* Idle, a recomputation of the candidates around the current frame gives
\* nothing: no eligible uncached frame is left within the look-ahead.
\* ------------------------------------------------------------------------
C23_IdleOnlyWhenNothingLeft ==
    [][(/\ last'.op = "tick"
        /\ last'.path # "invalid"
        /\ is_caching
        /\ ~is_caching')
          => get_precache_frames(frame_current', dirty_frames', frame_cache',
                                 settings', 0) = << >>]_vars


\* ------------------------------------------------------------------------
\* C24: a start request made while the scheduler is Idle computes the
\* candidates at once; the scheduler is Running afterwards exactly when
\* the feature is enabled and the list is not empty, and then the list is
\* the pending queue and one timer more is registered; otherwise it stays
\* Idle and registers no timer.
\* ------------------------------------------------------------------------
C24_StartFromIdle ==
    [][(last'.op = "frame_change" /\ ~is_caching)
          => LET found == get_precache_frames(frame_current', dirty_frames',
                                              frame_cache', settings', 0)
             IN /\ is_caching' <=> (enabled /\ found # << >>)
                /\ is_caching' => (pending_frames' = found /\ timers' = timers + 1)
                /\ ~is_caching' => timers' = timers]_vars

\* a start request found the scheduler Idle and left it Running with a
\* queue and its timer
C24_Witness ==
    /\ last.op = "frame_change"
    /\ ~last.was_caching
    /\ is_caching
    /\ pending_frames # << >>
    /\ timers >= 1


\* ------------------------------------------------------------------------
\* C25: a mark_all_dirty between two ticks is seen by every later write of
\* the scheduler.  Right after the handler marked everything dirty no
\* frame is reported cached; a tick makes clean only the frame it has
\* extracted in that very tick; so after the tick that follows the marking
\* the only frame that can be reported cached is the one this tick stored.
\* ------------------------------------------------------------------------
C25_MarkAllDirtySeenByTicks ==
    [][/\ (last'.op = "geometry_changed" /\ enabled /\ objects # "none")
             => \A f \in Frames : ~is_frame_cached(dirty_frames', frame_cache', f)
       /\ last'.op = "tick"
             => \A f \in Frames :
                   (/\ is_frame_cached(dirty_frames', frame_cache', f)
                    /\ ~is_frame_cached(dirty_frames, frame_cache, f))
                      => (f = last'.frame /\ last'.path = "cached")
       /\ (/\ last.op = "geometry_changed" /\ enabled /\ objects # "none"
           /\ last'.op = "tick")
             => \A f \in Frames :
                   is_frame_cached(dirty_frames', frame_cache', f)
                      => (f = last'.frame /\ last'.path = "cached")]_vars

\* a tick stored its frame while an entry stored before the marking is
\* still there, dirty
C25_Witness ==
    /\ last.op = "tick"
    /\ last.path = "cached"
    /\ is_frame_cached(dirty_frames, frame_cache, last.frame)
    /\ \E g \in KeySet(frame_cache) :
          g # last.frame /\ g \in dirty_frames
                         /\ ~is_frame_cached(dirty_frames, frame_cache, g)


\* ------------------------------------------------------------------------
\* C26: a tick whose extraction raised or gave no geometry, and in which
\* the host reported no update of a tracked object (that event is the
\* markAllDirty of C25, not the failure), leaves the cache as it was
\* (entries and their order, dirty set, batches, hit and miss counters) and
\* the frame it popped uncached; it returns to the timer without an error,
\* and a running scheduler with candidates left keeps them in order, stays
\* Running and asks for the next tick.
\* ------------------------------------------------------------------------
C26_FailedExtractionLeavesCache ==
    [][(/\ last'.op = "tick"
        /\ last'.path \in {"raised", "empty"}
        /\ ~last'.changed)
          => (/\ frame_cache' = frame_cache
              /\ dirty_frames' = dirty_frames
              /\ batch_cache' = batch_cache
              /\ cache_hits' = cache_hits
              /\ cache_misses' = cache_misses
              /\ ~is_frame_cached(dirty_frames', frame_cache', last'.frame)
              /\ ret' \in {Interval, None}
              /\ (is_caching /\ Len(pending_frames) > 1)
                    => (/\ pending_frames' = Tail(pending_frames)
                        /\ is_caching'
                        /\ ret' = Interval))]_vars

\* a failed tick of a running scheduler over a cache that holds a clean
\* frame, with a candidate left for the next tick
C26_Witness ==
    /\ last.op = "tick"
    /\ last.path \in {"raised", "empty"}
    /\ ~last.changed
    /\ last.running
    /\ \E g \in KeySet(frame_cache) : is_frame_cached(dirty_frames, frame_cache, g)
    /\ ~is_frame_cached(dirty_frames, frame_cache, last.frame)
    /\ is_caching
    /\ pending_frames # << >>
    /\ ret = Interval


\* ------------------------------------------------------------------------
\* C29: the start request of a frame change uses the direction of the
\* move: when the scene moved forward and the scheduler started, the
\* pending queue holds only frames after the new current frame; when it
\* moved backward, only frames before it.
\* ------------------------------------------------------------------------
C29_StartUsesDirection ==
    [][(last'.op = "frame_change" /\ ~is_caching /\ is_caching')
          => (/\ last'.frame > last'.from
                    => \A i \in 1..Len(pending_frames') :
                          pending_frames'[i] > frame_current'
              /\ last'.frame < last'.from
                    => \A i \in 1..Len(pending_frames') :
                          pending_frames'[i] < frame_current')]_vars


\* ------------------------------------------------------------------------
\* C30: after a geometry-change notification for a tracked object no
\* frame is reported cached, whether the feature is enabled or disabled
\* when the notification arrives.
\* ------------------------------------------------------------------------
C30_ChangeAlwaysInvalidates ==
    [][(last'.op = "geometry_changed" /\ objects # "none")
          => \A f \in Frames :
                ~is_frame_cached(dirty_frames', frame_cache', f)]_vars


\* the frames the candidate computation is meant to choose from: not
\* cached, inside the frame range, a non-zero multiple of frame_step away
\* from the current frame and at most the look-ahead away, on the side
\* the direction allows
EligibleFrames(current, df, fc, st, direction) ==
    LET look_ahead == Max(st.frames_before, st.frames_after) + LookAheadMargin
    IN {f \in (current - look_ahead)..(current + look_ahead) :
           /\ f # current
           /\ Abs(f - current) % st.frame_step = 0
           /\ f >= st.range_start
           /\ f <= st.range_end
           /\ ~is_frame_cached(df, fc, f)
           /\ direction > 0 => f > current
           /\ direction < 0 => f < current}

\* ------------------------------------------------------------------------
\* C27: the list get_precache_frames returns is in non-decreasing distance
\* from the current frame, has at most 10 entries, and is made of the 10
\* closest eligible frames (all of them when there are fewer); at frame
\* 100 with frame_step 2, range [90, 110], nothing cached and direction 0
\* it is 102, 98, 104, 96, ... with 10 entries.
\* ------------------------------------------------------------------------
C27_TenClosestEligible ==
    last.op = "get_precache_frames"
       => LET r == ret.frames
              current == last.frame
              returned == {r[i] : i \in 1..Len(r)}
              eligible == EligibleFrames(current, dirty_frames, frame_cache,
                                         settings, last.direction)
          IN /\ \A i, j \in 1..Len(r) :
                   i < j => Abs(r[i] - current) <= Abs(r[j] - current)
             /\ Len(r) <= PrecacheLimit
             /\ returned \subseteq eligible
             /\ Len(r) = IF Cardinality(eligible) < PrecacheLimit
                         THEN Cardinality(eligible) ELSE PrecacheLimit
             /\ \A f \in eligible \ returned : \A g \in returned :
                   Abs(g - current) <= Abs(f - current)
             /\ (/\ current = 100 /\ settings.frame_step = 2
                 /\ frame_cache = << >> /\ last.direction = 0)
                   => (/\ Len(r) = 10
                       /\ SubSeq(r, 1, 4) = <<102, 98, 104, 96>>)


\* ------------------------------------------------------------------------
\* C28: every frame get_precache_frames returns is not cached, lies in
\* [range_start, range_end], is a non-zero multiple of frame_step away
\* from the current frame and at most max(frames_before, frames_after) + 5
\* away; no frame is returned twice; a positive direction returns only
\* later frames, a negative one only earlier frames.
\* ------------------------------------------------------------------------
C28_ReturnedFramesEligible ==
    last.op = "get_precache_frames"
       => LET r == ret.frames
              current == last.frame
              look_ahead == Max(settings.frames_before, settings.frames_after)
                               + LookAheadMargin
          IN /\ \A i \in 1..Len(r) :
                   /\ ~is_frame_cached(dirty_frames, frame_cache, r[i])
                   /\ r[i] >= settings.range_start
                   /\ r[i] <= settings.range_end
                   /\ r[i] # current
                   /\ Abs(r[i] - current) % settings.frame_step = 0
                   /\ Abs(r[i] - current) <= look_ahead
                   /\ last.direction > 0 => r[i] > current
                   /\ last.direction < 0 => r[i] < current
             /\ \A i, j \in 1..Len(r) : i # j => r[i] # r[j]


\* ------------------------------------------------------------------------
\* C31: while the timer keeps firing a running scheduler becomes Idle; a
\* tick of the running scheduler that does not abort takes exactly the
\* first candidate off the pending queue, whether or not the frame was
\* cached.
\* ------------------------------------------------------------------------
C31_RunningLeadsToIdle ==
    /\ is_caching ~> ~is_caching
    /\ [][(last'.op = "tick" /\ is_caching /\ last'.path # "invalid")
             => (/\ pending_frames # << >>
                 /\ last'.frame = Head(pending_frames)
                 /\ pending_frames' = Tail(pending_frames))]_vars

\* the running scheduler popped its last candidate, the extraction raised,
\* and the scheduler is Idle
C31_Witness ==
    /\ last.op = "tick"
    /\ last.running
    /\ last.path = "raised"
    /\ last.frame # NoFrame
    /\ pending_frames = << >>
    /\ ~is_caching


\* ------------------------------------------------------------------------
\* C32: a draw pass at the frame recorded in _last_frame extracts and adds
\* nothing and leaves the scene frame and _last_frame alone; a draw pass
\* at another frame records that frame in _last_frame and ends with the
\* scene at the frame it started from.
\* ------------------------------------------------------------------------
C32_DrawPassServedFrame ==
    [][(last'.op = "draw" /\ last'.path # "skipped")
          => (/\ frame_current = last_frame
                    => (/\ last'.path = "same"
                        /\ frame_cache' = frame_cache
                        /\ dirty_frames' = dirty_frames
                        /\ cache_misses' = cache_misses
                        /\ frame_current' = frame_current
                        /\ last_frame' = last_frame)
              /\ frame_current # last_frame
                    => (/\ last_frame' = frame_current
                        /\ frame_current' = frame_current))]_vars


\* ------------------------------------------------------------------------
\* C33: at most one timer callback is registered at any time, and
\* _is_caching is set exactly while one is registered.
\* ------------------------------------------------------------------------
C33_OneCallback ==
    /\ timers <= 1
    /\ is_caching <=> timers >= 1


\* ------------------------------------------------------------------------
\* C34: a draw pass of the enabled feature whose extraction succeeds
\* leaves every needed onion frame cached and with a batch to draw, also
\* at an unchanged current frame whose needed frames have been marked
\* dirty or evicted since the last pass.
\* ------------------------------------------------------------------------
C34_DrawPassRecaches ==
    [][(/\ last'.op = "draw"
        /\ last'.path # "skipped"
        /\ objects = "mesh"
        /\ ~last'.failed
        /\ ~last'.changed)
          => LET needed == get_needed_frames(frame_current, settings)
             IN \A i \in 1..Len(needed) :
                   /\ is_frame_cached(dirty_frames', frame_cache', needed[i])
                   /\ needed[i] \in DOMAIN batch_cache']_vars


\* ------------------------------------------------------------------------
\* C35: a frame the timer callback caches is, when it is cached, at most
\* max(frames_before, frames_after) + 5 frames away from the current
\* frame and inside the frame range of that moment.
\* ------------------------------------------------------------------------
C35_CachedFramesAreNear ==
    [][(last'.op = "tick" /\ last'.path = "cached")
          => (/\ Abs(last'.frame - frame_current)
                    <= Max(settings.frames_before, settings.frames_after)
                          + LookAheadMargin
              /\ last'.frame >= settings.range_start
              /\ last'.frame <= settings.range_end)]_vars


\* ------------------------------------------------------------------------
\* C36: when a tick, a bake or a rebake leaves the scheduler started, the pending
\* queue was computed around the frame the user is at: no candidate is
\* that frame itself and every candidate is a multiple of frame_step away
\* from it.
\* ------------------------------------------------------------------------
C36_StartAroundUserFrame ==
    [][(/\ last'.op \in {"tick", "bake_cache", "rebake_cache"}
        /\ ~is_caching
        /\ is_caching')
          => \A i \in 1..Len(pending_frames') :
                /\ pending_frames'[i] # frame_current
                /\ Abs(pending_frames'[i] - frame_current) % settings.frame_step = 0]_vars


\* ------------------------------------------------------------------------
\* C37: cache_frame on a frame that is cached and clean does nothing.  A
\* tick whose popped frame is cached takes the "already" way: the frame
\* cache, the batches, the dirty set, both counters and the scene frame
\* are what they were; a tick that stores a frame stores one that was
\* absent or dirty.
\* ------------------------------------------------------------------------
C37_CachedFrameNotRewritten ==
    [][last'.op = "tick"
          => (/\ (/\ last'.frame # NoFrame
                  /\ is_frame_cached(dirty_frames, frame_cache, last'.frame))
                    => (/\ last'.path = "already"
                        /\ frame_cache' = frame_cache
                        /\ batch_cache' = batch_cache
                        /\ dirty_frames' = dirty_frames
                        /\ cache_misses' = cache_misses
                        /\ cache_hits' = cache_hits
                        /\ frame_current' = frame_current)
              /\ last'.path = "already"
                    => is_frame_cached(dirty_frames, frame_cache, last'.frame)
              /\ last'.path = "cached"
                    => ~is_frame_cached(dirty_frames, frame_cache, last'.frame))]_vars

\* a tick popped a frame that a bake had cached in the meantime: the entry
\* is still there and clean
C37_Witness ==
    /\ last.op = "tick"
    /\ last.path = "already"
    /\ last.frame # NoFrame
    /\ is_frame_cached(dirty_frames, frame_cache, last.frame)
    /\ cache_misses >= 1

====
